---- MODULE Spec2Model ----
(***************************************************************************)
(* Model of the command-to-card pipeline of main.go: getVideoID,           *)
(* messageHandler, sendError and sendRecommend, together with the library  *)
(* calls they make (strings.Split, url.Parse, url.Values.Get,              *)
(* duration.ParseISO8601, time.Parse, fmt.Sprintf).                        *)
(*                                                                         *)
(* A Go string is a sequence of one-character strings.  A rune outside     *)
(* printable ASCII is one element written "U+XXXX"; "\n" and "\t" are the  *)
(* control characters of the input alphabet.  Positions are 1-based and 0  *)
(* stands for Go's -1 ("not found").                                       *)
(***************************************************************************)
EXTENDS Integers, Sequences, FiniteSets, TLC

VARIABLES inv, alive, text, result

vars == <<inv, alive, text, result>>

(***************************************************************************)
(* Bounds of the model.                                                    *)
(***************************************************************************)
\* handler invocations in flight under Spec
NumInv == 1
\* handler invocations in flight under SpecConc
NumConc == 2
\* most records one fetch returns
MaxItems == 2

(***************************************************************************)
(* Characters.                                                             *)
(***************************************************************************)
Ascii ==
  <<" ", "!", "\"", "#", "$", "%", "&", "'", "(", ")", "*", "+", ",", "-", ".", "/",
    "0", "1", "2", "3", "4", "5", "6", "7", "8", "9", ":", ";", "<", "=", ">", "?",
    "@", "A", "B", "C", "D", "E", "F", "G", "H", "I", "J", "K", "L", "M", "N", "O",
    "P", "Q", "R", "S", "T", "U", "V", "W", "X", "Y", "Z", "[", "\\", "]", "^", "_",
    "U+0060", "a", "b", "c", "d", "e", "f", "g", "h", "i", "j", "k", "l", "m", "n", "o",
    "p", "q", "r", "s", "t", "u", "v", "w", "x", "y", "z", "{", "|", "}", "~">>

Digits == <<"0", "1", "2", "3", "4", "5", "6", "7", "8", "9">>

Range(s) == {s[i] : i \in 1..Len(s)}

IsPrintable(c) == c \in Range(Ascii)

\* the byte value of a printable ASCII character
Ord(c) == 31 + CHOOSE i \in 1..Len(Ascii) : Ascii[i] = c

\* the character of a byte value
Chr(n) ==
  IF n \in 32..126 THEN Ascii[n - 31]
  ELSE IF n = 10 THEN "\n"
  ELSE IF n = 9 THEN "\t"
  ELSE "byte" \o ToString(n)

IsDigit(c) == c \in Range(Digits)

IsLower(c) == IsPrintable(c) /\ Ord(c) \in 97..122

IsUpper(c) == IsPrintable(c) /\ Ord(c) \in 65..90

IsLetter(c) == IsLower(c) \/ IsUpper(c)

\* net/url ishex
ishex(c) == IsDigit(c) \/ (IsPrintable(c) /\ (Ord(c) \in 97..102 \/ Ord(c) \in 65..70))

\* net/url unhex
unhex(c) ==
  IF IsDigit(c) THEN Ord(c) - 48
  ELSE IF Ord(c) \in 97..102 THEN Ord(c) - 97 + 10
  ELSE IF Ord(c) \in 65..70 THEN Ord(c) - 65 + 10
  ELSE 0

\* net/url stringContainsCTLByte: a byte below 0x20, or 0x7f
IsCTL(c) == c \in {"\n", "\t"}

(***************************************************************************)
(* Binding.  With(v, Body) is Body(v) with v evaluated once, as a Go local *)
(* is: the value is bound by a quantifier, which evaluates it, and not by  *)
(* LET, which substitutes the expression.                                  *)
(***************************************************************************)
With(v, Body(_)) == CHOOSE r \in {Body(x) : x \in {v}} : TRUE

(***************************************************************************)
(* Package strings.                                                        *)
(***************************************************************************)
Drop(s, n) == SubSeq(s, n + 1, Len(s))

Take(s, n) == SubSeq(s, 1, IF n > Len(s) THEN Len(s) ELSE n)

\* sub occurs in s at position i
OccursAt(s, sub, i) ==
  /\ i + Len(sub) - 1 <= Len(s)
  /\ \A k \in 1..Len(sub) : s[i + k - 1] = sub[k]

HasPrefix(s, p) == OccursAt(s, p, 1)

HasSuffix(s, p) == Len(s) >= Len(p) /\ OccursAt(s, p, Len(s) - Len(p) + 1)

TrimPrefix(s, p) == IF HasPrefix(s, p) THEN Drop(s, Len(p)) ELSE s

\* strings.Index: position of the first occurrence of sub, 0 when absent
Index(s, sub) ==
  IF \E i \in 1..(Len(s) + 1) : OccursAt(s, sub, i)
    THEN CHOOSE i \in 1..(Len(s) + 1) :
           OccursAt(s, sub, i) /\ \A j \in 1..(i - 1) : ~OccursAt(s, sub, j)
  ELSE 0

\* strings.LastIndex
LastIndex(s, sub) ==
  IF \E i \in 1..(Len(s) + 1) : OccursAt(s, sub, i)
    THEN CHOOSE i \in 1..(Len(s) + 1) :
           OccursAt(s, sub, i) /\ \A j \in (i + 1)..(Len(s) + 1) : ~OccursAt(s, sub, j)
  ELSE 0

Contains(s, sub) == \E i \in 1..(Len(s) + 1) : OccursAt(s, sub, i)

\* strings.Count for a separator of one character
Count(s, c) == Cardinality({i \in 1..Len(s) : s[i] = c})

\* strings.Cut
Cut(s, sep) ==
  With(Index(s, sep), LAMBDA i :
    IF i = 0 THEN [before |-> s, after |-> <<>>, found |-> FALSE]
    ELSE [before |-> Take(s, i - 1), after |-> Drop(s, i - 1 + Len(sep)), found |-> TRUE])

RECURSIVE SplitFrom(_, _)
SplitFrom(c, sep) ==
  IF ~c.found THEN <<c.before>>
  ELSE <<c.before>> \o With(Cut(c.after, sep), LAMBDA d : SplitFrom(d, sep))

\* strings.Split for a non-empty separator: cut until no separator is left
Split(s, sep) == With(Cut(s, sep), LAMBDA c : SplitFrom(c, sep))

\* the escape strconv.Quote writes for one character of the input alphabet
QuoteChar(c) ==
  CASE c = "\"" -> <<"\\", "\"">>
    [] c = "\\" -> <<"\\", "\\">>
    [] c = "\n" -> <<"\\", "n">>
    [] c = "\t" -> <<"\\", "t">>
    [] OTHER -> <<c>>

RECURSIVE Concat(_, _)
\* the concatenation of the first n strings of a sequence of strings
Concat(ss, n) == IF n = 0 THEN <<>> ELSE Concat(ss, n - 1) \o ss[n]

\* strconv.Quote
Quote(s) ==
  With([i \in 1..Len(s) |-> QuoteChar(s[i])], LAMBDA ss :
    <<"\"">> \o Concat(ss, Len(ss)) \o <<"\"">>)

(***************************************************************************)
(* Package net/url, as far as url.Parse and URL.Query decide getVideoID.   *)
(* A result is a record with ok (no error), err (the error text) and the   *)
(* value.  Hosts with an IPv6 zone identifier are outside the inputs.      *)
(***************************************************************************)
NoError == <<>>

ErrInvalidControl == <<"n", "e", "t", "/", "u", "r", "l", ":", " ", "i", "n", "v", "a", "l", "i", "d", " ", "c", "o", "n", "t", "r", "o", "l", " ", "c", "h", "a", "r", "a", "c", "t", "e", "r", " ", "i", "n", " ", "U", "R", "L">>

ErrMissingScheme == <<"m", "i", "s", "s", "i", "n", "g", " ", "p", "r", "o", "t", "o", "c", "o", "l", " ", "s", "c", "h", "e", "m", "e">>

ErrColonSegment == <<"f", "i", "r", "s", "t", " ", "p", "a", "t", "h", " ", "s", "e", "g", "m", "e", "n", "t", " ", "i", "n", " ", "U", "R", "L", " ", "c", "a", "n", "n", "o", "t", " ", "c", "o", "n", "t", "a", "i", "n", " ", "c", "o", "l", "o", "n">>

ErrInvalidUserinfo == <<"n", "e", "t", "/", "u", "r", "l", ":", " ", "i", "n", "v", "a", "l", "i", "d", " ", "u", "s", "e", "r", "i", "n", "f", "o">>

ErrMissingBracket == <<"m", "i", "s", "s", "i", "n", "g", " ", "'", "]", "'", " ", "i", "n", " ", "h", "o", "s", "t">>

\* EscapeError.Error
EscapeError(e) == <<"i", "n", "v", "a", "l", "i", "d", " ", "U", "R", "L", " ", "e", "s", "c", "a", "p", "e", " ">> \o Quote(e)

\* InvalidHostError.Error
InvalidHostError(e) == <<"i", "n", "v", "a", "l", "i", "d", " ", "c", "h", "a", "r", "a", "c", "t", "e", "r", " ">> \o Quote(e) \o <<" ", "i", "n", " ", "h", "o", "s", "t", " ", "n", "a", "m", "e">>

\* the error of parseHost for a bad port
InvalidPortError(p) == <<"i", "n", "v", "a", "l", "i", "d", " ", "p", "o", "r", "t", " ">> \o Quote(p) \o <<" ", "a", "f", "t", "e", "r", " ", "h", "o", "s", "t">>

\* url.Error.Error: the operation, the URL, the cause
urlError(u, cause) == <<"p", "a", "r", "s", "e", " ">> \o Quote(u) \o <<":", " ">> \o cause

HostUnreserved == Range(<<"!", "$", "&", "'", "(", ")", "*", "+", ",", ";", "=", ":", "[", "]", "<", ">", "\"", "-", "_", ".", "~">>)

UserinfoChars == Range(<<"-", ".", "_", ":", "~", "!", "$", "&", "'", "(", ")", "*", "+", ",", ";", "=", "%", "@">>)

IsAlnum(c) == IsLetter(c) \/ IsDigit(c)

\* shouldEscape(c, encodeHost), for a byte below 0x80
shouldEscapeHost(c) == ~(IsAlnum(c) \/ c \in HostUnreserved)

IsAsciiByte(c) == IsPrintable(c) \/ IsCTL(c)

RECURSIVE unescapeCheck(_, _, _)
\* the first loop of unescape, from position i: the error of the first bad
\* escape or host byte
unescapeCheck(s, i, mode) ==
  IF i > Len(s) THEN NoError
  ELSE IF s[i] = "%" THEN
    IF i + 2 > Len(s) \/ ~ishex(s[i + 1]) \/ ~ishex(s[i + 2])
      THEN EscapeError(SubSeq(s, i, IF i + 2 > Len(s) THEN Len(s) ELSE i + 2))
    ELSE IF mode = "host" /\ unhex(s[i + 1]) < 8 /\ SubSeq(s, i, i + 2) # <<"%", "2", "5">>
      THEN EscapeError(SubSeq(s, i, i + 2))
    ELSE unescapeCheck(s, i + 3, mode)
  ELSE IF mode = "host" /\ IsAsciiByte(s[i]) /\ shouldEscapeHost(s[i])
    THEN InvalidHostError(<<s[i]>>)
  ELSE unescapeCheck(s, i + 1, mode)

RECURSIVE unescapeDecode(_, _, _)
\* the second loop of unescape, from position i: %XX to its byte, + to a
\* space in a query component
unescapeDecode(s, i, mode) ==
  IF i > Len(s) THEN <<>>
  ELSE IF s[i] = "%" THEN
    <<Chr(16 * unhex(s[i + 1]) + unhex(s[i + 2]))>> \o unescapeDecode(s, i + 3, mode)
  ELSE IF s[i] = "+" /\ mode = "query" THEN <<" ">> \o unescapeDecode(s, i + 1, mode)
  ELSE <<s[i]>> \o unescapeDecode(s, i + 1, mode)

\* net/url unescape
unescape(s, mode) ==
  With(unescapeCheck(s, 1, mode), LAMBDA e :
    IF e # NoError THEN [ok |-> FALSE, err |-> e, val |-> <<>>]
    ELSE [ok |-> TRUE, err |-> NoError, val |-> unescapeDecode(s, 1, mode)])

\* url.QueryUnescape
QueryUnescape(s) == unescape(s, "query")

\* the loop of getScheme stops at position i
SchemeStop(rawURL, i) ==
  \/ rawURL[i] = ":"
  \/ ~(IsLetter(rawURL[i]) \/ IsDigit(rawURL[i]) \/ rawURL[i] \in {"+", "-", "."})
  \/ (i = 1 /\ ~IsLetter(rawURL[i]))

\* net/url getScheme: the scheme, what follows it, and the error
getScheme(rawURL) ==
  IF \A i \in 1..Len(rawURL) : ~SchemeStop(rawURL, i)
    THEN [scheme |-> <<>>, rest |-> rawURL, err |-> NoError]
  ELSE
    With(CHOOSE i \in 1..Len(rawURL) :
           SchemeStop(rawURL, i) /\ \A j \in 1..(i - 1) : ~SchemeStop(rawURL, j),
         LAMBDA i :
      IF rawURL[i] # ":" THEN [scheme |-> <<>>, rest |-> rawURL, err |-> NoError]
      ELSE IF i = 1 THEN [scheme |-> <<>>, rest |-> <<>>, err |-> ErrMissingScheme]
      ELSE [scheme |-> Take(rawURL, i - 1), rest |-> Drop(rawURL, i), err |-> NoError])

\* strings.ToLower on ASCII
ToLower(s) == [i \in 1..Len(s) |-> IF IsUpper(s[i]) THEN Chr(Ord(s[i]) + 32) ELSE s[i]]

\* net/url validOptionalPort
validOptionalPort(port) ==
  \/ port = <<>>
  \/ /\ port[1] = ":"
     /\ \A i \in 2..Len(port) : IsDigit(port[i])

\* net/url validUserinfo
validUserinfo(s) == \A i \in 1..Len(s) : IsAlnum(s[i]) \/ s[i] \in UserinfoChars

\* the port check of parseHost: the text after the last ] or from the last :
HostPortError(host) ==
  IF HasPrefix(host, <<"[">>) THEN
    With(LastIndex(host, <<"]">>), LAMBDA rb :
      IF rb = 0 THEN ErrMissingBracket
      ELSE IF ~validOptionalPort(Drop(host, rb)) THEN InvalidPortError(Drop(host, rb))
      ELSE NoError)
  ELSE
    With(LastIndex(host, <<":">>), LAMBDA lc :
      IF lc # 0 /\ ~validOptionalPort(Drop(host, lc - 1))
        THEN InvalidPortError(Drop(host, lc - 1))
      ELSE NoError)

\* net/url parseHost
parseHost(host) ==
  With(HostPortError(host), LAMBDA portErr :
    IF portErr # NoError THEN [ok |-> FALSE, err |-> portErr, val |-> <<>>]
    ELSE unescape(host, "host"))

\* the userinfo checks of parseAuthority
UserinfoError(userinfo) ==
  IF ~validUserinfo(userinfo) THEN ErrInvalidUserinfo
  ELSE
    With(Cut(userinfo, <<":">>), LAMBDA up :
      With(unescape(up.before, "userPassword"), LAMBDA user :
        IF ~user.ok THEN user.err ELSE unescape(up.after, "userPassword").err))

\* net/url parseAuthority: the host and the error (the user is parsed, not kept)
parseAuthority(authority) ==
  With(LastIndex(authority, <<"@">>), LAMBDA i :
    With(parseHost(Drop(authority, i)), LAMBDA h :
      IF ~h.ok \/ i = 0 THEN h
      ELSE With(UserinfoError(Take(authority, i - 1)), LAMBDA e :
             IF e # NoError THEN [ok |-> FALSE, err |-> e, val |-> <<>>] ELSE h)))

NoURL ==
  [Scheme |-> <<>>, Opaque |-> <<>>, Host |-> <<>>, Path |-> <<>>,
   RawQuery |-> <<>>, Fragment |-> <<>>]

ParseFailed(e) == [ok |-> FALSE, err |-> e, url |-> NoURL]

Parsed(u) == [ok |-> TRUE, err |-> NoError, url |-> u]

\* URL.setPath, the last step of parse
setPath(scheme, host, p, rawQuery) ==
  With(unescape(p, "path"), LAMBDA path :
    IF ~path.ok THEN ParseFailed(path.err)
    ELSE Parsed([NoURL EXCEPT !.Scheme = scheme, !.Host = host, !.Path = path.val,
                              !.RawQuery = rawQuery]))

\* parse after the scheme and the query are cut off: opaque, authority, path
parseRest(scheme, rest, rawQuery) ==
  IF ~HasPrefix(rest, <<"/">>) /\ scheme # <<>> THEN
    Parsed([NoURL EXCEPT !.Scheme = scheme, !.Opaque = rest, !.RawQuery = rawQuery])
  ELSE IF ~HasPrefix(rest, <<"/">>) /\ Contains(Cut(rest, <<"/">>).before, <<":">>)
    THEN ParseFailed(ErrColonSegment)
  ELSE IF HasPrefix(rest, <<"/", "/">>) /\ (scheme # <<>> \/ ~HasPrefix(rest, <<"/", "/", "/">>))
    THEN
      With(Cut(Drop(rest, 2), <<"/">>), LAMBDA ac :
        With(parseAuthority(ac.before), LAMBDA auth :
          IF ~auth.ok THEN ParseFailed(auth.err)
          ELSE setPath(scheme, auth.val,
                       IF ac.found THEN <<"/">> \o ac.after ELSE <<>>, rawQuery)))
  ELSE setPath(scheme, <<>>, rest, rawQuery)

\* the query of parse: a lone trailing ? forces an empty query
splitQuery(rest) ==
  IF HasSuffix(rest, <<"?">>) /\ Count(rest, "?") = 1
    THEN [before |-> Take(rest, Len(rest) - 1), after |-> <<>>, found |-> TRUE]
  ELSE Cut(rest, <<"?">>)

\* net/url parse(rawURL, viaRequest = false)
parse(rawURL) ==
  IF \E i \in 1..Len(rawURL) : IsCTL(rawURL[i]) THEN ParseFailed(ErrInvalidControl)
  ELSE IF rawURL = <<"*">> THEN Parsed([NoURL EXCEPT !.Path = <<"*">>])
  ELSE
    With(getScheme(rawURL), LAMBDA sch :
      IF sch.err # NoError THEN ParseFailed(sch.err)
      ELSE With(splitQuery(sch.rest), LAMBDA q :
             With(ToLower(sch.scheme), LAMBDA scheme :
               parseRest(scheme, q.before, q.after))))

\* url.Parse
urlParse(rawURL) ==
  With(Cut(rawURL, <<"#">>), LAMBDA c :
    With(parse(c.before), LAMBDA p :
      IF ~p.ok THEN ParseFailed(urlError(c.before, p.err))
      ELSE IF c.after = <<>> THEN p
      ELSE With(unescape(c.after, "fragment"), LAMBDA f :
             IF ~f.ok THEN ParseFailed(urlError(rawURL, f.err))
             ELSE [p EXCEPT !.url.Fragment = f.val])))

\* one pair of parseQuery: none when it has a semicolon, is empty or has a
\* bad escape (URL.Query drops the error)
queryPair(part) ==
  IF Contains(part, <<";">>) \/ part = <<>> THEN <<>>
  ELSE
    With(Cut(part, <<"=">>), LAMBDA kv :
      With(QueryUnescape(kv.before), LAMBDA key :
        With(QueryUnescape(kv.after), LAMBDA value :
          IF ~key.ok \/ ~value.ok THEN <<>>
          ELSE <<[key |-> key.val, value |-> value.val]>>)))

RECURSIVE parseQuery(_)
\* net/url parseQuery: the (key, value) pairs in order
parseQuery(query) ==
  IF query = <<>> THEN <<>>
  ELSE With(Cut(query, <<"&">>), LAMBDA c : queryPair(c.before) \o parseQuery(c.after))

\* URL.Query
Query(u) == parseQuery(u.RawQuery)

\* Values.Get: the first value of the key, or the empty string
Get(query, key) ==
  With(query, LAMBDA values :
    IF \A i \in 1..Len(values) : values[i].key # key THEN <<>>
    ELSE values[CHOOSE i \in 1..Len(values) :
                  values[i].key = key /\ \A j \in 1..(i - 1) : values[j].key # key].value)

(***************************************************************************)
(* main.go: getVideoID.                                                    *)
(***************************************************************************)
YoutuBePrefix == <<"h", "t", "t", "p", "s", ":", "/", "/", "y", "o", "u", "t", "u", ".", "b", "e", "/">>

ErrFailedToParse == <<"F", "a", "i", "l", "e", "d", " ", "t", "o", " ", "p", "a", "r", "s", "e", " ", "U", "R", "L", " ", ":", " ">>

ErrSchemaNotValid == <<"U", "R", "L", " ", "S", "c", "h", "e", "m", "a", " ", "n", "o", "t", " ", "v", "a", "l", "i", "d">>

\* a variant of getVideoID that tests the prefix before the v parameter
\* (C3 depends on the order of the two tests)
getVideoIDPrefixFirst(s) ==
  With(urlParse(s), LAMBDA u :
    IF ~u.ok THEN [id |-> <<>>, err |-> ErrFailedToParse \o u.err]
    ELSE IF HasPrefix(s, YoutuBePrefix)
      THEN [id |-> TrimPrefix(s, YoutuBePrefix), err |-> NoError]
    ELSE With(Get(Query(u.url), <<"v">>), LAMBDA videoID :
           IF videoID # <<>> THEN [id |-> videoID, err |-> NoError]
           ELSE [id |-> <<>>, err |-> ErrSchemaNotValid]))

\* a variant of getVideoID that takes the identifier of a short link from
\* the parsed path (C4 depends on the remainder being that of the text)
getVideoIDFromPath(s) ==
  With(urlParse(s), LAMBDA u :
    IF ~u.ok THEN [id |-> <<>>, err |-> ErrFailedToParse \o u.err]
    ELSE With(Get(Query(u.url), <<"v">>), LAMBDA videoID :
           IF videoID # <<>> THEN [id |-> videoID, err |-> NoError]
           ELSE IF HasPrefix(s, YoutuBePrefix)
             THEN [id |-> TrimPrefix(u.url.Path, <<"/">>), err |-> NoError]
           ELSE [id |-> <<>>, err |-> ErrSchemaNotValid]))

\* a variant of getVideoID that accepts a bare identifier (C5 depends on
\* the last branch failing)
getVideoIDBare(s) ==
  With(urlParse(s), LAMBDA u :
    IF ~u.ok THEN [id |-> <<>>, err |-> ErrFailedToParse \o u.err]
    ELSE With(Get(Query(u.url), <<"v">>), LAMBDA videoID :
           IF videoID # <<>> THEN [id |-> videoID, err |-> NoError]
           ELSE IF HasPrefix(s, YoutuBePrefix)
             THEN [id |-> TrimPrefix(s, YoutuBePrefix), err |-> NoError]
           ELSE [id |-> s, err |-> NoError]))

\* getVideoID: the identifier and the error text (NoError for nil)
getVideoID(s) ==
  With(urlParse(s), LAMBDA u :
    IF ~u.ok THEN [id |-> <<>>, err |-> ErrFailedToParse \o u.err]
    ELSE With(Get(Query(u.url), <<"v">>), LAMBDA videoID :
           IF videoID # <<>> THEN [id |-> videoID, err |-> NoError]
           ELSE IF HasPrefix(s, YoutuBePrefix)
             THEN [id |-> TrimPrefix(s, YoutuBePrefix), err |-> NoError]
           ELSE [id |-> <<>>, err |-> ErrSchemaNotValid]))

(***************************************************************************)
(* strconv and fmt: decimal numbers.                                       *)
(***************************************************************************)
RECURSIVE AtoiUpTo(_, _)
\* the number the first n digits of s write
AtoiUpTo(s, n) == IF n = 0 THEN 0 ELSE 10 * AtoiUpTo(s, n - 1) + (Ord(s[n]) - 48)

\* strconv.Atoi on a string of decimal digits (the inputs stay far below
\* the overflow of int)
Atoi(s) == With(s, LAMBDA digits : AtoiUpTo(digits, Len(digits)))

RECURSIVE Itoa(_)
\* the %d verb of fmt.Sprintf for a non-negative number
Itoa(n) == IF n < 10 THEN <<Digits[n + 1]>> ELSE Itoa(n \div 10) \o <<Digits[(n % 10) + 1]>>

\* a number in at least w digits, as the layouts 01, 02, 04, 05, 2006 write it
ZeroPad(n, w) ==
  With(Itoa(n), LAMBDA d : [i \in 1..(w - Len(d)) |-> "0"] \o d)

AllDigits(s) == \A i \in 1..Len(s) : IsDigit(s[i])

\* the length of the run of decimal digits at the positions after from
DigitRun(s, from) ==
  IF \A i \in (from + 1)..Len(s) : IsDigit(s[i]) THEN Len(s) - from
  ELSE (CHOOSE i \in (from + 1)..Len(s) :
          ~IsDigit(s[i]) /\ \A j \in (from + 1)..(i - 1) : IsDigit(s[j])) - from - 1

(***************************************************************************)
(* github.com/senseyeio/duration: ParseISO8601.  The library matches the   *)
(* unanchored pattern P(nY)?(nM)?(nD)?(T(nH)?(nM)?(nS)?)? at the leftmost  *)
(* P, or P(nW) when the string holds one.  A group is read at a position:  *)
(* hit, the number, and the position after the group.                      *)
(***************************************************************************)
ZeroDuration == [Y |-> 0, M |-> 0, W |-> 0, D |-> 0, TH |-> 0, TM |-> 0, TS |-> 0]

\* one optional group (n unit) after position at
DurationGroup(s, at, unit) ==
  With(DigitRun(s, at), LAMBDA n :
    IF n > 0 /\ Len(s) > at + n /\ s[at + n + 1] = unit
      THEN [hit |-> TRUE, val |-> Atoi(SubSeq(s, at + 1, at + n)), next |-> at + n + 1]
    ELSE [hit |-> FALSE, val |-> 0, next |-> at])

\* position i holds a P that starts the week form P(nW)
WeekAt(s, i) == s[i] = "P" /\ DurationGroup(s, i, "W").hit

\* the time part (T(nH)?(nM)?(nS)?)? after position at
DurationTime(s, at, date) ==
  IF ~(Len(s) > at /\ s[at + 1] = "T") THEN date
  ELSE
    With(DurationGroup(s, at + 1, "H"), LAMBDA h :
      With(DurationGroup(s, h.next, "M"), LAMBDA mi :
        With(DurationGroup(s, mi.next, "S"), LAMBDA sec :
          [date EXCEPT !.TH = h.val, !.TM = mi.val, !.TS = sec.val])))

\* the date part (nY)?(nM)?(nD)? after the P at position p, then the time
DurationFull(s, p) ==
  With(DurationGroup(s, p, "Y"), LAMBDA y :
    With(DurationGroup(s, y.next, "M"), LAMBDA mo :
      With(DurationGroup(s, mo.next, "D"), LAMBDA d :
        DurationTime(s, d.next, [ZeroDuration EXCEPT !.Y = y.val, !.M = mo.val, !.D = d.val]))))

\* duration.ParseISO8601: ok is FALSE for ErrBadFormat
ParseISO8601(from) ==
  With(from, LAMBDA s :
    IF \E i \in 1..Len(s) : WeekAt(s, i) THEN
      With(CHOOSE i \in 1..Len(s) : WeekAt(s, i) /\ \A j \in 1..(i - 1) : ~WeekAt(s, j),
           LAMBDA w :
        [ok |-> TRUE, val |-> [ZeroDuration EXCEPT !.W = DurationGroup(s, w, "W").val]])
    ELSE IF ~Contains(s, <<"P">>) THEN [ok |-> FALSE, val |-> ZeroDuration]
    ELSE [ok |-> TRUE, val |-> DurationFull(s, Index(s, <<"P">>))])

(***************************************************************************)
(* Package time: Parse with the layout RFC3339, Time.String and            *)
(* Time.Format(RFC3339).  A time is its calendar fields, the nanoseconds,  *)
(* the zone offset in minutes and whether the zone is UTC.  The local zone *)
(* of the process is taken to differ from every offset of the inputs.      *)
(***************************************************************************)
ZeroTime ==
  [year |-> 1, month |-> 1, day |-> 1, hour |-> 0, min |-> 0, sec |-> 0,
   nsec |-> 0, offset |-> 0, utc |-> TRUE]

isLeap(year) == year % 4 = 0 /\ (year % 100 # 0 \/ year % 400 = 0)

\* time.daysIn
daysIn(month, year) ==
  IF month = 2 THEN (IF isLeap(year) THEN 29 ELSE 28)
  ELSE IF month \in {4, 6, 9, 11} THEN 30 ELSE 31

RECURSIVE Nanos(_, _)
\* the first w digits of a fraction as nanoseconds
Nanos(digits, w) ==
  IF w = 0 THEN 0
  ELSE Nanos(digits, w - 1)
       + (IF w > Len(digits) THEN 0 ELSE (Ord(digits[w]) - 48) * (10 ^ (9 - w)))

TimeFailed == [ok |-> FALSE, val |-> ZeroTime]

\* the layout element Z07:00: Z, or a sign, hours, a colon and minutes
ZoneOk(zone) ==
  \/ zone = <<"Z">>
  \/ /\ Len(zone) = 6 /\ zone[1] \in {"+", "-"}
     /\ AllDigits(SubSeq(zone, 2, 3)) /\ zone[4] = ":"
     /\ AllDigits(SubSeq(zone, 5, 6))
     /\ Atoi(SubSeq(zone, 2, 3)) <= 24 /\ Atoi(SubSeq(zone, 5, 6)) <= 60

ZoneOffset(zone) ==
  IF zone = <<"Z">> THEN 0
  ELSE (IF zone[1] = "-" THEN -1 ELSE 1)
       * (60 * Atoi(SubSeq(zone, 2, 3)) + Atoi(SubSeq(zone, 5, 6)))

\* the layout 2006-01-02T: four, two and two digits
DateOk(value) ==
  /\ Len(value) >= 11
  /\ AllDigits(SubSeq(value, 1, 4)) /\ value[5] = "-"
  /\ AllDigits(SubSeq(value, 6, 7)) /\ value[8] = "-"
  /\ AllDigits(SubSeq(value, 9, 10)) /\ value[11] = "T"

\* the layout 15:04:05 after the hour: two digits each
ClockOk(ms) ==
  /\ Len(ms) >= 6
  /\ ms[1] = ":" /\ AllDigits(SubSeq(ms, 2, 3))
  /\ ms[4] = ":" /\ AllDigits(SubSeq(ms, 5, 6))

\* the fields of a parsed time are in range
RangeOk(t) ==
  /\ t.month \in 1..12 /\ t.day >= 1 /\ t.day <= daysIn(t.month, t.year)
  /\ t.hour < 24 /\ t.min < 60 /\ t.sec < 60

\* the seconds are followed by an optional fraction and the zone
timeParseZone(t, afterSec) ==
  With(IF Len(afterSec) >= 2 /\ afterSec[1] \in {".", ","} /\ IsDigit(afterSec[2])
         THEN DigitRun(afterSec, 1) ELSE 0,
       LAMBDA fracLen :
    With(IF fracLen = 0 THEN afterSec ELSE Drop(afterSec, 1 + fracLen), LAMBDA zone :
      IF ~ZoneOk(zone) THEN TimeFailed
      ELSE With([t EXCEPT !.nsec = Nanos(SubSeq(afterSec, 2, 1 + fracLen), 9),
                          !.offset = ZoneOffset(zone), !.utc = (zone = <<"Z">>)],
                LAMBDA parsed : IF RangeOk(parsed) THEN [ok |-> TRUE, val |-> parsed]
                                ELSE TimeFailed)))

\* the hour has one or two digits, the minutes and seconds two
timeParseClock(t, afterT) ==
  With(IF DigitRun(afterT, 0) >= 2 THEN 2 ELSE DigitRun(afterT, 0), LAMBDA hd :
    With(Drop(afterT, hd), LAMBDA ms :
      IF hd = 0 \/ ~ClockOk(ms) THEN TimeFailed
      ELSE timeParseZone([t EXCEPT !.hour = Atoi(Take(afterT, hd)),
                                   !.min = Atoi(SubSeq(ms, 2, 3)),
                                   !.sec = Atoi(SubSeq(ms, 5, 6))],
                         Drop(ms, 6))))

\* time.Parse(time.RFC3339, value): ok is FALSE for any parse error
timeParse(value) ==
  With(value, LAMBDA v :
    IF ~DateOk(v) THEN TimeFailed
    ELSE timeParseClock([ZeroTime EXCEPT !.year = Atoi(SubSeq(v, 1, 4)),
                                         !.month = Atoi(SubSeq(v, 6, 7)),
                                         !.day = Atoi(SubSeq(v, 9, 10))],
                        Drop(v, 11)))

\* a fraction without its trailing zeros
TrimZeros(s) ==
  With(s, LAMBDA d :
    Take(d, CHOOSE n \in 0..Len(d) :
              /\ \A i \in (n + 1)..Len(d) : d[i] = "0"
              /\ (n = 0 \/ d[n] # "0")))

Abs(n) == IF n < 0 THEN -n ELSE n

\* the zone as -0700
ZoneDigits(t) ==
  <<IF t.offset < 0 THEN "-" ELSE "+">>
    \o ZeroPad(Abs(t.offset) \div 60, 2) \o ZeroPad(Abs(t.offset) % 60, 2)

\* Time.String: the layout 2006-01-02 15:04:05.999999999 -0700 MST
TimeString(t) ==
  ZeroPad(t.year, 4) \o <<"-">> \o ZeroPad(t.month, 2) \o <<"-">> \o ZeroPad(t.day, 2)
    \o <<" ">> \o ZeroPad(t.hour, 2) \o <<":">> \o ZeroPad(t.min, 2)
    \o <<":">> \o ZeroPad(t.sec, 2)
    \o (IF t.nsec = 0 THEN <<>> ELSE <<".">> \o TrimZeros(ZeroPad(t.nsec, 9)))
    \o <<" ">> \o ZoneDigits(t) \o <<" ">>
    \o (IF t.utc THEN <<"U", "T", "C">> ELSE ZoneDigits(t))

\* Time.Format(time.RFC3339): the layout 2006-01-02T15:04:05Z07:00
FormatRFC3339(t) ==
  ZeroPad(t.year, 4) \o <<"-">> \o ZeroPad(t.month, 2) \o <<"-">> \o ZeroPad(t.day, 2)
    \o <<"T">> \o ZeroPad(t.hour, 2) \o <<":">> \o ZeroPad(t.min, 2)
    \o <<":">> \o ZeroPad(t.sec, 2)
    \o (IF t.offset = 0 THEN <<"Z">>
        ELSE With(ZoneDigits(t), LAMBDA z : SubSeq(z, 1, 3) \o <<":">> \o SubSeq(z, 4, 5)))

(***************************************************************************)
(* main.go: the values messageHandler works on.                            *)
(***************************************************************************)
command == <<"!", "r", "e", "c">>

ErrItemNotFound == <<"I", "t", "e", "m", " ", "n", "o", "t", " ", "f", "o", "u", "n", "d">>

WatchURL == <<"h", "t", "t", "p", "s", ":", "/", "/", "w", "w", "w", ".", "y", "o", "u", "t", "u", "b", "e", ".", "c", "o", "m", "/", "w", "a", "t", "c", "h", "?", "v", "=">>

ChannelURL == <<"h", "t", "t", "p", "s", ":", "/", "/", "w", "w", "w", ".", "y", "o", "u", "t", "u", "b", "e", ".", "c", "o", "m", "/", "c", "h", "a", "n", "n", "e", "l", "/">>

ColorRed == 16711680

ColorGreen == 65280

\* the instants time.Now returns
Clock ==
  {[year |-> 2026, month |-> 11, day |-> 3, hour |-> 12, min |-> 30, sec |-> 15,
    nsec |-> 0, offset |-> 0, utc |-> TRUE]}

\* a *discordgo.MessageCreate: the fields the handler reads
Message(id, bot, channel, content) ==
  [Author |-> [ID |-> id, Bot |-> bot], ChannelID |-> channel, Content |-> content]

NoMessage == Message(<<>>, FALSE, <<>>, <<>>)

\* a *youtube.Video: Snippet, Thumbnails, High and ContentDetails are
\* pointers, nil when the response carries no such part
Video(id, snippet, contentDetails) ==
  [Id |-> id, Snippet |-> snippet, ContentDetails |-> contentDetails]

Snippet(title, description, channelTitle, channelId, publishedAt, thumbnails) ==
  [nil |-> FALSE, Title |-> title, Description |-> description,
   ChannelTitle |-> channelTitle, ChannelId |-> channelId,
   PublishedAt |-> publishedAt, Thumbnails |-> thumbnails]

Thumbnails(url) == [nil |-> FALSE, High |-> [nil |-> FALSE, Url |-> url]]

NoHigh == [nil |-> FALSE, High |-> [nil |-> TRUE, Url |-> <<>>]]

NilThumbnails == [nil |-> TRUE, High |-> [nil |-> TRUE, Url |-> <<>>]]

NilSnippet ==
  [nil |-> TRUE, Title |-> <<>>, Description |-> <<>>, ChannelTitle |-> <<>>,
   ChannelId |-> <<>>, PublishedAt |-> <<>>, Thumbnails |-> NilThumbnails]

ContentDetails(duration) == [nil |-> FALSE, Duration |-> duration]

NilContentDetails == [nil |-> TRUE, Duration |-> <<>>]

\* the result of call.Do(): the error text and the items of the response
Response(err, items) == [err |-> err, Items |-> items]

NoResponse == Response(NoError, <<>>)

\* lines 125-130 dereference ContentDetails, Snippet, Thumbnails and High
NilDereference(item) ==
  \/ item.ContentDetails.nil
  \/ item.Snippet.nil
  \/ item.Snippet.Thumbnails.nil
  \/ item.Snippet.Thumbnails.High.nil

\* a variant of mapRecommend that builds the channel URL from the channel
\* title (C8 depends on the channel id)
mapRecommendByTitle(item) ==
  [title |-> item.Snippet.Title,
   URL |-> WatchURL \o item.Id,
   imageURL |-> item.Snippet.Thumbnails.High.Url,
   channelName |-> item.Snippet.ChannelTitle,
   channelThumbnailURL |-> <<>>,
   channelURL |-> ChannelURL \o item.Snippet.ChannelTitle,
   description |-> item.Snippet.Description,
   duration |-> ParseISO8601(item.ContentDetails.Duration).val,
   publishedAt |-> timeParse(item.Snippet.PublishedAt).val]

\* the recommend literal of lines 125-137; the parse errors are dropped
mapRecommend(item) ==
  [title |-> item.Snippet.Title,
   URL |-> WatchURL \o item.Id,
   imageURL |-> item.Snippet.Thumbnails.High.Url,
   channelName |-> item.Snippet.ChannelTitle,
   channelThumbnailURL |-> <<>>,
   channelURL |-> ChannelURL \o item.Snippet.ChannelId,
   description |-> item.Snippet.Description,
   duration |-> ParseISO8601(item.ContentDetails.Duration).val,
   publishedAt |-> timeParse(item.Snippet.PublishedAt).val]

NoPart == [nil |-> TRUE, URL |-> <<>>]

NoAuthor == [nil |-> TRUE, Name |-> <<>>, URL |-> <<>>, IconURL |-> <<>>]

Field(name, value, inline) == [Name |-> name, Value |-> value, Inline |-> inline]

\* the mention <@id> of the message author
Mention(m) == <<"<", "@">> \o m.Author.ID \o <<">">>

\* a variant of ErrorEmbed with title and body exchanged (C2 depends on
\* where the message of the failure goes)
ErrorEmbedSwapped(m, e, now) ==
  [URL |-> <<>>, Type |-> <<>>, Title |-> e, Description |-> <<"E", "R", "R", "O", "R">>,
   Timestamp |-> FormatRFC3339(now), Color |-> ColorRed,
   Image |-> NoPart, Thumbnail |-> NoPart, Author |-> NoAuthor,
   Fields |-> <<Field(<<"U+30B3", "U+30DE", "U+30F3", "U+30C9", "U+9001", "U+4FE1", "U+8005">>, Mention(m), FALSE)>>]

\* the embed sendError builds
ErrorEmbed(m, e, now) ==
  [URL |-> <<>>, Type |-> <<>>, Title |-> <<"E", "R", "R", "O", "R">>, Description |-> e,
   Timestamp |-> FormatRFC3339(now), Color |-> ColorRed,
   Image |-> NoPart, Thumbnail |-> NoPart, Author |-> NoAuthor,
   Fields |-> <<Field(<<"U+30B3", "U+30DE", "U+30F3", "U+30C9", "U+9001", "U+4FE1", "U+8005">>, Mention(m), FALSE)>>]

\* the duration field: hours, minutes and seconds with their signs
DurationText(d) ==
  Itoa(d.TH) \o <<"U+6642", "U+9593">> \o Itoa(d.TM) \o <<"U+5206">> \o Itoa(d.TS) \o <<"U+79D2">>

\* the embed sendRecommend builds
RecommendEmbed(m, rec, now) ==
  [URL |-> rec.URL, Type |-> <<"r", "i", "c", "h">>, Title |-> rec.title,
   Description |-> rec.description,
   Timestamp |-> FormatRFC3339(now), Color |-> ColorGreen,
   Image |-> [nil |-> FALSE, URL |-> rec.imageURL],
   Thumbnail |-> [nil |-> FALSE, URL |-> <<>>],
   Author |-> [nil |-> FALSE, Name |-> rec.channelName, URL |-> rec.channelURL,
               IconURL |-> rec.channelThumbnailURL],
   Fields |-> <<Field(<<"U+30C1", "U+30E3", "U+30F3", "U+30CD", "U+30EB", "U+540D">>, rec.channelName, TRUE),
                Field(<<"U", "R", "L">>, rec.channelURL, TRUE),
                Field(<<"U+516C", "U+958B", "U+65E5", "U+6642">>, TimeString(rec.publishedAt), FALSE),
                Field(<<"U+9577", "U+3055">>, DurationText(rec.duration), TRUE),
                Field(<<"R", "E", "C", "O", "M", "M", "E", "N", "D", "E", "D", " ", "B", "Y">>, Mention(m), FALSE)>>]

\* sendError up to its call of s.ChannelMessageSendEmbed
sendError(m, e, now) ==
  [ChannelID |-> m.ChannelID, kind |-> "error", embed |-> ErrorEmbed(m, e, now)]

\* a variant of sendRecommend that addresses the card to the channel of the
\* message of the first invocation, as a handler keeping its message in a
\* package-level variable would (C10 depends on the message being a local)
sendRecommendShared(m, rec, now) ==
  [ChannelID |-> inv[1].m.ChannelID, kind |-> "recommend",
   embed |-> RecommendEmbed(m, rec, now)]

\* sendRecommend up to its call of s.ChannelMessageSendEmbed
sendRecommend(m, rec, now) ==
  [ChannelID |-> m.ChannelID, kind |-> "recommend", embed |-> RecommendEmbed(m, rec, now)]

\* the request of line 113
VideosList(videoID) ==
  [part |-> <<"id", "snippet", "contentDetails">>, id |-> videoID, maxResults |-> 1]

\* lines 96-106: the message is no command of this bot
Ignores(m) ==
  LET commands == Split(m.Content, <<" ">>)
  IN  m.Author.Bot \/ Len(commands) # 2 \/ commands[1] # command

\* a variant of ItemMissing that tests for the empty result only (C6
\* depends on the test being for exactly one record)
ItemMissingEmpty(resp) == Len(resp.Items) = 0

\* line 119
ItemMissing(resp) == Len(resp.Items) # 1

(***************************************************************************)
(* The state.  inv[i] holds the locals of the i-th invocation of           *)
(* messageHandler and what it has handed to its collaborators: fetches     *)
(* (the requests to the metadata service), sends (the calls of             *)
(* ChannelMessageSendEmbed) and logs (the logrus entries).  pc is where    *)
(* the goroutine stands: idle (not started), fetch (in call.Do), send (in  *)
(* ChannelMessageSendEmbed), done (returned) or panic.  state is the       *)
(* state of the dispatcher, via the state in which the card was built.     *)
(* alive is FALSE once a panic of a handler goroutine has ended the        *)
(* process.  text and result are the argument and the return value of a    *)
(* direct call of getVideoID.                                              *)
(***************************************************************************)
IdleInv ==
  [pc |-> "idle", state |-> "Idle", via |-> "None", m |-> NoMessage,
   videoID |-> <<>>, fetches |-> <<>>, resp |-> NoResponse,
   sends |-> <<>>, sendErr |-> NoError, logs |-> <<>>]

NoResult == [called |-> FALSE, id |-> <<>>, err |-> NoError]

\* messageHandler from its entry to its first collaborator call or return:
\* the locals of the invocation after lines 96-113
HandlerEntry(loc, m, now) ==
  IF Ignores(m) THEN [loc EXCEPT !.pc = "done", !.state = "Ignored", !.m = m]
  ELSE
    With(getVideoID(Split(m.Content, <<" ">>)[2]), LAMBDA r :
      IF r.err # NoError THEN
        [loc EXCEPT !.pc = "send", !.state = "ExtractFailed", !.via = "ExtractFailed",
                    !.m = m, !.sends = Append(@, sendError(m, r.err, now))]
      ELSE
        [loc EXCEPT !.pc = "fetch", !.state = "Extracted", !.m = m,
                    !.videoID = r.id, !.fetches = Append(@, VideosList(r.id))])

\* the chat platform delivers m: a goroutine runs messageHandler
Receive(i, m, now) ==
  /\ alive
  /\ inv[i].pc = "idle"
  /\ inv' = [inv EXCEPT ![i] = HandlerEntry(@, m, now)]
  /\ UNCHANGED <<alive, text, result>>

\* lines 115-122: the card of a failed lookup
FetchFailed(loc, e, resp, now) ==
  [loc EXCEPT !.pc = "send", !.state = "FetchFailed", !.via = "FetchFailed",
              !.resp = resp, !.sends = Append(@, sendError(loc.m, e, now))]

\* lines 114-141 after call.Do() returned resp, up to the send call or the
\* nil dereference
HandlerFetched(loc, resp, now) ==
  IF resp.err # NoError THEN FetchFailed(loc, resp.err, resp, now)
  ELSE IF ItemMissing(resp) THEN FetchFailed(loc, ErrItemNotFound, resp, now)
  ELSE IF NilDereference(resp.Items[1]) THEN
    [loc EXCEPT !.pc = "panic", !.state = "Fetched", !.resp = resp]
  ELSE
    With(mapRecommend(resp.Items[1]), LAMBDA rec :
      [loc EXCEPT !.pc = "send", !.state = "Mapped", !.via = "Mapped", !.resp = resp,
                  !.sends = Append(@, sendRecommend(loc.m, rec, now))])

\* call.Do() returns; a panic of the goroutine ends the process
FetchReturn(i, resp, now) ==
  /\ alive
  /\ inv[i].pc = "fetch"
  /\ inv' = [inv EXCEPT ![i] = HandlerFetched(@, resp, now)]
  /\ alive' = (inv'[i].pc # "panic")
  /\ UNCHANGED <<text, result>>

\* the log entry of line 140
LogEntry(err) == [level |-> "error", err |-> err]

\* s.ChannelMessageSendEmbed returns err: sendError hands it to a caller
\* that drops it (lines 109, 116, 120); sendRecommend's is logged (line 140)
SendReturn(i, err) ==
  /\ alive
  /\ inv[i].pc = "send"
  /\ inv' = [inv EXCEPT ![i] =
       [@ EXCEPT !.pc = "done",
                 !.state = IF err = NoError THEN "Sent" ELSE "SendFailed",
                 !.sendErr = err,
                 !.logs = IF err # NoError /\ inv[i].via = "Mapped"
                            THEN Append(@, LogEntry(err)) ELSE @]]
  /\ UNCHANGED <<alive, text, result>>

\* a direct call of getVideoID(text)
CallGetVideoID ==
  /\ ~result.called
  /\ result' = With(getVideoID(text), LAMBDA r :
                  [called |-> TRUE, id |-> r.id, err |-> r.err])
  /\ UNCHANGED <<inv, alive, text>>

(***************************************************************************)
(* The inputs.                                                             *)
(***************************************************************************)
\* the arguments of the direct calls of getVideoID: head, path, query, fragment
TextHeads ==
  {<<>>, <<"h", "t", "t", "p", "s", ":", "/", "/", "y", "o", "u", "t", "u", ".", "b", "e", "/">>, <<"h", "t", "t", "p", "s", ":", "/", "/", "w", "w", "w", ".", "y", "o", "u", "t", "u", "b", "e", ".", "c", "o", "m", "/">>, <<"h", "t", "t", "p", ":", "/", "/", "h", ":", "x", "/">>,
   <<"1", "a", ":">>, <<"y", "o", "u", "t", "u", ".", "b", "e", "/">>, <<"n", "o", "t", "-", "a", "-", "u", "r", "l">>}

TextPaths == {<<>>, <<"a", "b", "c">>, <<"w", "a", "t", "c", "h">>, <<"%", "z", "z">>, <<"a", " ", "b">>}

TextQueries ==
  {<<>>, <<"?", "v", "=", "a", "b", "c">>, <<"?", "v", "=">>, <<"?", "t", "=", "1">>, <<"?", "t", "=", "1", "&", "v", "=", "a", "b", "c">>, <<"?", "v", "=", "a", "b", "c", "&", "t", "=", "1">>, <<"?", "v", "=", "a", "%", "6", "2", "c">>,
   <<"?", "v", "=", "&", "v", "=", "a", "b", "c">>, <<"?">>, <<"?", "v", "=", "a", "+", "b">>, <<"?", "%", "7", "6", "=", "a", "b", "c">>}

TextFragments == {<<>>, <<"#", "t">>, <<"#", "?", "v", "=", "a", "b", "c">>}

Texts ==
  {h \o p \o q \o f : h \in TextHeads, p \in TextPaths, q \in TextQueries,
                      f \in TextFragments}

\* the message texts the chat platform delivers
Contents ==
  {<<"!", "r", "e", "c", " ", "n", "o", "t", "-", "a", "-", "u", "r", "l">>,
   <<"!", "r", "e", "c", " ", "h", "t", "t", "p", "s", ":", "/", "/", "w", "w", "w", ".", "y", "o", "u", "t", "u", "b", "e", ".", "c", "o", "m", "/", "w", "a", "t", "c", "h", "?", "v", "=", "a", "b", "c", "1", "2", "3">>,
   <<"!", "r", "e", "c", " ", "h", "t", "t", "p", "s", ":", "/", "/", "y", "o", "u", "t", "u", ".", "b", "e", "/", "a", "b", "c">>,
   <<"!", "r", "e", "c", " ", "h", "t", "t", "p", "s", ":", "/", "/", "y", "o", "u", "t", "u", ".", "b", "e", "/", "a", "b", "c", "?", "v", "=", "x", "y", "z">>,
   <<"!", "r", "e", "c", " ", "h", "t", "t", "p", "s", ":", "/", "/", "w", "w", "w", ".", "y", "o", "u", "t", "u", "b", "e", ".", "c", "o", "m", "/", "%", "?", "v", "=", "a", "b", "c">>,
   <<"!", "r", "e", "c", " ", "a", "b", "c", "1", "2", "3">>,
   <<"!", "o", "t", "h", "e", "r", " ", "h", "t", "t", "p", "s", ":", "/", "/", "y", "o", "u", "t", "u", ".", "b", "e", "/", "a", "b", "c">>,
   <<"!", "r", "e", "c", " ", "h", "t", "t", "p", "s", ":", "/", "/", "y", "o", "u", "t", "u", ".", "b", "e", "/", "a", "b", "c", " ", "p", "l", "e", "a", "s", "e">>,
   <<"!", "r", "e", "c">>,
   <<"!", "r", "e", "c", " ">>,
   <<"!", "r", "e", "c", " ", "h", "t", "t", "p", "s", ":", "/", "/", "y", "o", "u", "t", "u", ".", "b", "e", "/", "a", "b", "c", "\n", "p", "l", "e", "a", "s", "e">>,
   <<"!", "r", "e", "c", " ", " ", "h", "t", "t", "p", "s", ":", "/", "/", "y", "o", "u", "t", "u", ".", "b", "e", "/", "a", "b", "c">>,
   <<"!", "r", "e", "c", "\t", "h", "t", "t", "p", "s", ":", "/", "/", "y", "o", "u", "t", "u", ".", "b", "e", "/", "a", "b", "c">>,
   <<"!", "r", "e", "c", " ", "h", "t", "t", "p", ":", "/", "/", "h", ":", "x", "/">>,
   <<"!", "r", "e", "c", " ", "h", "t", "t", "p", "s", ":", "/", "/", "w", "w", "w", ".", "y", "o", "u", "t", "u", "b", "e", ".", "c", "o", "m", "/", "w", "a", "t", "c", "h", "?", "t", "=", "1">>,
   <<"!", "r", "e", "c", " ", "h", "t", "t", "p", "s", ":", "/", "/", "w", "w", "w", ".", "y", "o", "u", "t", "u", "b", "e", ".", "c", "o", "m", "/", "w", "a", "t", "c", "h", "?", "v", "=">>,
   <<"!", "r", "e", "c", " ", "y", "o", "u", "t", "u", ".", "b", "e", "/", "a", "b", "c">>,
   <<>>}

\* who sends a message, where, and whether the sender is a bot
Senders ==
  {[id |-> <<"u", "1">>, channel |-> <<"c", "1">>, bot |-> FALSE],
   [id |-> <<"u", "2">>, channel |-> <<"c", "2">>, bot |-> FALSE],
   [id |-> <<"b", "1">>, channel |-> <<"c", "1">>, bot |-> TRUE]}

Messages == {Message(s.id, s.bot, s.channel, c) : s \in Senders, c \in Contents}

VideoFull ==
  Video(<<"a", "b", "c", "1", "2", "3">>,
        Snippet(<<"T", "i", "t", "l", "e">>, <<"A", "b", "o", "u", "t">>, <<"C", "h", "a", "n">>, <<"U", "C", "1">>, <<"2", "0", "2", "1", "-", "0", "1", "-", "0", "1", "T", "0", "0", ":", "0", "0", ":", "0", "0", "Z">>,
                Thumbnails(<<"h", "t", "t", "p", "s", ":", "/", "/", "i", ".", "y", "t", "i", "m", "g", ".", "c", "o", "m", "/", "h", "q", ".", "j", "p", "g">>)),
        ContentDetails(<<"P", "T", "1", "H", "2", "M", "3", "S">>))

VideoBadDuration == [VideoFull EXCEPT !.ContentDetails.Duration = <<"s", "o", "o", "n">>]

VideoBadTime == [VideoFull EXCEPT !.Snippet.PublishedAt = <<"y", "e", "s", "t", "e", "r", "d", "a", "y">>]

VideoEmpty ==
  Video(<<"a", "b", "c">>, Snippet(<<>>, <<>>, <<>>, <<>>, <<>>, Thumbnails(<<>>)), ContentDetails(<<>>))

VideoOther ==
  Video(<<"x", "y", "z">>,
        Snippet(<<"O", "t", "h", "e", "r">>, <<>>, <<"C", "h", "a", "n", "2">>, <<"U", "C", "2">>, <<"2", "0", "2", "0", "-", "0", "2", "-", "2", "9", "T", "2", "3", ":", "5", "9", ":", "5", "9", ".", "5", "+", "0", "9", ":", "0", "0">>,
                Thumbnails(<<"h", "t", "t", "p", "s", ":", "/", "/", "i", ".", "y", "t", "i", "m", "g", ".", "c", "o", "m", "/", "2", ".", "j", "p", "g">>)),
        ContentDetails(<<"P", "T", "1", "5", "M", "3", "3", "S">>))

VideoNoHigh == [VideoFull EXCEPT !.Snippet.Thumbnails = NoHigh]

VideoNoThumbnails == [VideoFull EXCEPT !.Snippet.Thumbnails = NilThumbnails]

VideoNoSnippet == [VideoFull EXCEPT !.Snippet = NilSnippet]

VideoNoDetails == [VideoFull EXCEPT !.ContentDetails = NilContentDetails]

Videos ==
  {VideoFull, VideoBadDuration, VideoBadTime, VideoEmpty, VideoOther,
   VideoNoHigh, VideoNoThumbnails, VideoNoSnippet, VideoNoDetails}

ErrQuota == <<"g", "o", "o", "g", "l", "e", "a", "p", "i", ":", " ", "E", "r", "r", "o", "r", " ", "4", "0", "3", ":", " ", "q", "u", "o", "t", "a", "E", "x", "c", "e", "e", "d", "e", "d">>

ErrForbidden == <<"H", "T", "T", "P", " ", "4", "0", "3", " ", "F", "o", "r", "b", "i", "d", "d", "e", "n">>

\* what call.Do() returns: an error, or up to MaxItems records
Responses ==
  {Response(ErrQuota, <<>>), Response(NoError, <<>>)}
    \cup {Response(NoError, <<v>>) : v \in Videos}
    \cup {Response(NoError, [k \in 1..n |-> IF k = 1 THEN VideoFull ELSE VideoOther]) :
            n \in 2..MaxItems}

\* what ChannelMessageSendEmbed returns
SendResults == {NoError, ErrForbidden}

\* the smaller inputs of the concurrent runs
ConcMessages ==
  {Message(s.id, s.bot, s.channel, c) :
     s \in {t \in Senders : ~t.bot},
     c \in {<<"!", "r", "e", "c", " ", "n", "o", "t", "-", "a", "-", "u", "r", "l">>, <<"!", "r", "e", "c", " ", "h", "t", "t", "p", "s", ":", "/", "/", "y", "o", "u", "t", "u", ".", "b", "e", "/", "a", "b", "c">>,
            <<"!", "r", "e", "c", " ", "h", "t", "t", "p", "s", ":", "/", "/", "w", "w", "w", ".", "y", "o", "u", "t", "u", "b", "e", ".", "c", "o", "m", "/", "w", "a", "t", "c", "h", "?", "v", "=", "x", "y", "z">>}}

ConcResponses ==
  {Response(NoError, <<>>), Response(NoError, <<VideoEmpty>>), Response(NoError, <<VideoOther>>),
   Response(NoError, <<VideoNoSnippet>>)}

(***************************************************************************)
(* The specifications.  Spec: the handler on every message and response.   *)
(* SpecConc: NumConc invocations in flight at once.  SpecGetVideoID:       *)
(* getVideoID on every text, called directly and by the handler for the    *)
(* command that has the text as its argument.                              *)
(***************************************************************************)
Init ==
  /\ inv = [i \in 1..NumInv |-> IdleInv]
  /\ alive = TRUE
  /\ text = <<>>
  /\ result = NoResult

\* the chat platform delivers a message
OnMessage == \E i \in DOMAIN inv, m \in Messages, now \in Clock : Receive(i, m, now)

\* the metadata service answers a request
OnFetchReturn ==
  \E i \in DOMAIN inv, resp \in Responses, now \in Clock : FetchReturn(i, resp, now)

\* the chat platform answers a send
OnSendReturn == \E i \in DOMAIN inv, err \in SendResults : SendReturn(i, err)

Next == OnMessage \/ OnFetchReturn \/ OnSendReturn

Spec == Init /\ [][Next]_vars

InitConc ==
  /\ inv = [i \in 1..NumConc |-> IdleInv]
  /\ alive = TRUE
  /\ text = <<>>
  /\ result = NoResult

ConcOnMessage ==
  \E i \in DOMAIN inv, m \in ConcMessages, now \in Clock : Receive(i, m, now)

ConcOnFetchReturn ==
  \E i \in DOMAIN inv, resp \in ConcResponses, now \in Clock : FetchReturn(i, resp, now)

NextConc == ConcOnMessage \/ ConcOnFetchReturn \/ OnSendReturn

SpecConc == InitConc /\ [][NextConc]_vars

InitGetVideoID ==
  /\ inv = [i \in 1..NumInv |-> IdleInv]
  /\ alive = TRUE
  /\ text \in Texts
  /\ result = NoResult

\* messageHandler is called for the command whose argument is text
DispatchText ==
  \E now \in Clock :
    Receive(1, Message(<<"u", "1">>, FALSE, <<"c", "1">>, command \o <<" ">> \o text), now)

NextGetVideoID == CallGetVideoID \/ DispatchText

SpecGetVideoID == InitGetVideoID /\ [][NextGetVideoID]_vars


(***************************************************************************)
(* What the properties below speak of.                                     *)
(***************************************************************************)
Invocations == DOMAIN inv

\* the invocation has passed the filter of lines 96-106
Dispatched(x) == x.state \notin {"Idle", "Ignored"}

\* the second of the two parts of a dispatched message
Argument(x) == Split(x.m.Content, <<" ">>)[2]

\* the arguments of the messages that pass the filter
Arguments ==
  {Split(m.Content, <<" ">>)[2] : m \in {n \in Messages \cup ConcMessages : ~Ignores(n)}}

\* what getVideoID returns for each of them
Extraction == [a \in Arguments |-> getVideoID(a)]

\* call.Do() of the invocation has returned
FetchAnswered(x) == x.fetches # <<>> /\ x.pc # "fetch"

IsSpace(c) == c \in {" ", "\t", "\n"}

\* where the whitespace-delimited tokens of a text begin
TokenStarts(s) == {i \in 1..Len(s) : ~IsSpace(s[i]) /\ (i = 1 \/ IsSpace(s[i - 1]))}

\* the token that begins at i
TokenAt(s, i) ==
  SubSeq(s, i, CHOOSE j \in i..Len(s) :
                 /\ \A k \in i..j : ~IsSpace(s[k])
                 /\ (j = Len(s) \/ IsSpace(s[j + 1])))

FirstToken(s) == TokenAt(s, CHOOSE i \in TokenStarts(s) : \A j \in TokenStarts(s) : i <= j)

\* the query string as the text shows it: after the first question mark of
\* what precedes the first number sign
QueryText(s) ==
  LET c == Cut(s, <<"#">>)
      q == Cut(c.before, <<"?">>)
  IN  IF q.found THEN q.after ELSE <<>>

\* the name=value segments of the query string
Segments(s) == LET q == QueryText(s) IN IF q = <<>> THEN <<>> ELSE Split(q, <<"&">>)

IsPlain(id) == id # <<>> /\ \A i \in 1..Len(id) : IsAlnum(id[i]) \/ id[i] \in {"-", "_"}

\* the identifiers <id> of the segments v=<id> written without escapes
PlainVs(s) ==
  LET segs == Segments(s)
  IN  {Drop(segs[k], 2) : k \in {j \in 1..Len(segs) :
         HasPrefix(segs[j], <<"v", "=">>) /\ IsPlain(Drop(segs[j], 2))}}

\* a segment that is a parameter: no semicolon, name and value well escaped
WellFormed(seg) ==
  LET kv == Cut(seg, <<"=">>)
  IN  /\ seg # <<>>
      /\ ~Contains(seg, <<";">>)
      /\ QueryUnescape(kv.before).ok
      /\ QueryUnescape(kv.after).ok

SegmentName(seg) == QueryUnescape(Cut(seg, <<"=">>).before).val

SegmentValue(seg) == QueryUnescape(Cut(seg, <<"=">>).after).val

\* the positions of the parameters named v
VSegments(s) ==
  LET segs == Segments(s)
  IN  {k \in 1..Len(segs) : WellFormed(segs[k]) /\ SegmentName(segs[k]) = <<"v">>}

\* the value of the first parameter named v, empty when there is none
FirstV(s) ==
  LET ks == VSegments(s)
  IN  IF ks = {} THEN <<>>
      ELSE SegmentValue(Segments(s)[CHOOSE k \in ks : \A j \in ks : k <= j])

\* the message of the failure an error card reports
FailureMessage(x) ==
  IF x.fetches = <<>> THEN Extraction[Argument(x)].err
  ELSE IF x.resp.err # NoError THEN x.resp.err
  ELSE <<"I", "t", "e", "m", " ", "n", "o", "t", " ", "f", "o", "u", "n", "d">>

\* the invocation has handed exactly one card, an error card, to the send
\* collaborator
OneErrorCard(x) == Len(x.sends) = 1 /\ x.sends[1].kind = "error"

OneSuccessCard(x) == Len(x.sends) = 1 /\ x.sends[1].kind = "recommend"

(***************************************************************************)
(* C1.  For every incoming message, if the author is a bot, or the text    *)
(* does not split into exactly two whitespace-delimited tokens, or its     *)
(* first token is not !rec, the invocation ends in Ignored, sends no card  *)
(* and makes no fetch.  The code splits at the single space only: it does  *)
(* not hold.                                                               *)
(***************************************************************************)
NotACommand(m) ==
  \/ m.Author.Bot
  \/ Cardinality(TokenStarts(m.Content)) # 2
  \/ FirstToken(m.Content) # <<"!", "r", "e", "c">>

\* C1: a message that is no command is ignored, with no card and no fetch
C1_NonCommandIgnored ==
  \A i \in Invocations :
    (inv[i].pc # "idle" /\ NotACommand(inv[i].m)) =>
      /\ inv[i].state = "Ignored"
      /\ inv[i].sends = <<>>
      /\ inv[i].fetches = <<>>

(***************************************************************************)
(* C2.  A failure of the extraction or of the fetch ends the pipeline with *)
(* exactly one error card.                                                 *)
(***************************************************************************)
ExtractionFailed(x) == Dispatched(x) /\ Extraction[Argument(x)].err # NoError

FetchFailure(x) ==
  FetchAnswered(x) /\ (x.resp.err # NoError \/ x.resp.Items = <<>> \/ x.via = "FetchFailed")

\* C2: after a failed extraction or a failed fetch the invocation has handed
\* exactly one card to the send collaborator, for the channel of its message:
\* an error card titled ERROR whose body is the message of the failure and
\* whose one field mentions the author; no success card; no fetch after a
\* failed extraction, no mapping after a failed fetch
C2_FailureSendsOneErrorCard ==
  \A i \in Invocations :
    LET x == inv[i] IN
    (ExtractionFailed(x) \/ FetchFailure(x)) =>
      /\ OneErrorCard(x)
      /\ x.sends[1].ChannelID = x.m.ChannelID
      /\ x.sends[1].embed.Title = <<"E", "R", "R", "O", "R">>
      /\ x.sends[1].embed.Description = FailureMessage(x)
      /\ x.sends[1].embed.Description # <<>>
      /\ Len(x.sends[1].embed.Fields) = 1
      /\ x.sends[1].embed.Fields[1].Value = <<"<", "@">> \o x.m.Author.ID \o <<">">>
      /\ x.via # "Mapped"
      /\ x.state \in {"ExtractFailed", "FetchFailed", "Sent", "SendFailed"}
      /\ (ExtractionFailed(x) => x.fetches = <<>> /\ x.via = "ExtractFailed")
      /\ (FetchFailure(x) => Len(x.fetches) = 1 /\ x.via = "FetchFailed")

\* a fetch that failed with an error of the service, its card delivered
C2_Witness ==
  \E i \in Invocations :
    /\ FetchFailure(inv[i])
    /\ inv[i].resp.err # NoError
    /\ inv[i].state = "Sent"
    /\ OneErrorCard(inv[i])

(***************************************************************************)
(* C3.  The v parameter.                                                   *)
(***************************************************************************)
\* C3 as stated: for a text with a query parameter v=<id> (here only the
\* identifiers written without escapes) getVideoID returns that <id> and no
\* error
C3_VParameterReturned ==
  (result.called /\ PlainVs(text) # {}) =>
    (result.err = NoError /\ result.id \in PlainVs(text))

\* C3 amended: for a text url.Parse accepts whose first parameter named v has
\* a non-empty value, getVideoID returns that value, unescaped, and no error,
\* whatever the scheme, host, path, other parameters and fragment, and
\* whether or not the text begins with https://youtu.be/
C3_FirstVOfParsedText ==
  (result.called /\ urlParse(text).ok /\ FirstV(text) # <<>>) =>
    (result.err = NoError /\ result.id = FirstV(text))

\* a short link that carries a v parameter as well
C3_Witness ==
  /\ result.called
  /\ HasPrefix(text, <<"h", "t", "t", "p", "s", ":", "/", "/", "y", "o", "u", "t", "u", ".", "b", "e", "/">>)
  /\ urlParse(text).ok
  /\ FirstV(text) # <<>>
  /\ result.id = FirstV(text)
  /\ result.id # TrimPrefix(text, <<"h", "t", "t", "p", "s", ":", "/", "/", "y", "o", "u", "t", "u", ".", "b", "e", "/">>)

(***************************************************************************)
(* C4.  The short link.                                                    *)
(***************************************************************************)
\* the remainder of a text after the prefix of the short links
Remainder(s) == Drop(s, Len(<<"h", "t", "t", "p", "s", ":", "/", "/", "y", "o", "u", "t", "u", ".", "b", "e", "/">>))

\* C4 as stated (here only for the texts url.Parse accepts): for a text that
\* begins with https://youtu.be/ getVideoID returns the remainder of the text
\* and no error
C4_RemainderReturned ==
  (result.called /\ HasPrefix(text, <<"h", "t", "t", "p", "s", ":", "/", "/", "y", "o", "u", "t", "u", ".", "b", "e", "/">>) /\ urlParse(text).ok) =>
    (result.err = NoError /\ result.id = Remainder(text))

\* C4 amended: for a text that begins with https://youtu.be/, that url.Parse
\* accepts and whose first parameter named v is absent or empty, getVideoID
\* returns the remainder of the text and no error
C4_RemainderWithoutV ==
  (/\ result.called
   /\ HasPrefix(text, <<"h", "t", "t", "p", "s", ":", "/", "/", "y", "o", "u", "t", "u", ".", "b", "e", "/">>)
   /\ urlParse(text).ok
   /\ FirstV(text) = <<>>) =>
    (result.err = NoError /\ result.id = Remainder(text))

\* a short link whose remainder holds a query string
C4_Witness ==
  /\ result.called
  /\ HasPrefix(text, <<"h", "t", "t", "p", "s", ":", "/", "/", "y", "o", "u", "t", "u", ".", "b", "e", "/">>)
  /\ Contains(text, <<"?">>)
  /\ result.err = NoError
  /\ result.id = Remainder(text)
  /\ result.id # <<>>

(***************************************************************************)
(* C5.  Everything else is an invalid reference.                           *)
(***************************************************************************)
\* C5: a text with no non-empty parameter v that does not begin with
\* https://youtu.be/ is an invalid reference: getVideoID returns an error
\* (URL Schema not valid, or the parse failure) and no identifier, and the
\* handler called with it as the argument makes no fetch and sends one error
\* card with that error as its body; for !rec not-a-url the invocation is in
\* ExtractFailed and the body is URL Schema not valid
C5_OtherTextInvalid ==
  /\ (/\ result.called
      /\ FirstV(text) = <<>>
      /\ ~HasPrefix(text, <<"h", "t", "t", "p", "s", ":", "/", "/", "y", "o", "u", "t", "u", ".", "b", "e", "/">>)) =>
       /\ result.id = <<>>
       /\ \/ result.err = <<"U", "R", "L", " ", "S", "c", "h", "e", "m", "a", " ", "n", "o", "t", " ", "v", "a", "l", "i", "d">>
          \/ ~urlParse(text).ok /\ HasPrefix(result.err, <<"F", "a", "i", "l", "e", "d", " ", "t", "o", " ", "p", "a", "r", "s", "e", " ", "U", "R", "L", " ", ":", " ">>)
  /\ \A i \in Invocations :
       LET x == inv[i] IN
       (/\ Dispatched(x)
        /\ FirstV(Argument(x)) = <<>>
        /\ ~HasPrefix(Argument(x), <<"h", "t", "t", "p", "s", ":", "/", "/", "y", "o", "u", "t", "u", ".", "b", "e", "/">>)) =>
         /\ x.via = "ExtractFailed"
         /\ x.videoID = <<>>
         /\ x.fetches = <<>>
         /\ OneErrorCard(x)
         /\ \/ x.sends[1].embed.Description = <<"U", "R", "L", " ", "S", "c", "h", "e", "m", "a", " ", "n", "o", "t", " ", "v", "a", "l", "i", "d">>
            \/ /\ ~urlParse(Argument(x)).ok
               /\ HasPrefix(x.sends[1].embed.Description, <<"F", "a", "i", "l", "e", "d", " ", "t", "o", " ", "p", "a", "r", "s", "e", " ", "U", "R", "L", " ", ":", " ">>)
         /\ (x.m.Content = <<"!", "r", "e", "c", " ", "n", "o", "t", "-", "a", "-", "u", "r", "l">> =>
               x.sends[1].embed.Description = <<"U", "R", "L", " ", "S", "c", "h", "e", "m", "a", " ", "n", "o", "t", " ", "v", "a", "l", "i", "d">>)

\* getVideoID has failed on not-a-url and the card of !rec not-a-url is built
C5_Witness ==
  \E i \in Invocations :
    /\ result.called
    /\ result.err = <<"U", "R", "L", " ", "S", "c", "h", "e", "m", "a", " ", "n", "o", "t", " ", "v", "a", "l", "i", "d">>
    /\ inv[i].m.Content = <<"!", "r", "e", "c", " ", "n", "o", "t", "-", "a", "-", "u", "r", "l">>
    /\ inv[i].state = "ExtractFailed"
    /\ OneErrorCard(inv[i])
    /\ inv[i].sends[1].embed.Description = <<"U", "R", "L", " ", "S", "c", "h", "e", "m", "a", " ", "n", "o", "t", " ", "v", "a", "l", "i", "d">>

C7_MappingTotal ==
  \A i \in Invocations :
    LET x == inv[i] IN
    (FetchAnswered(x) /\ x.resp.err = NoError /\ Len(x.resp.Items) = 1) =>
      LET item == x.resp.Items[1] IN
      /\ alive
      /\ x.pc # "panic"
      /\ x.via = "Mapped"
      /\ OneSuccessCard(x)
      /\ x.sends[1].embed.Title = item.Snippet.Title
      /\ x.sends[1].embed.Description = item.Snippet.Description
      /\ x.sends[1].embed.Author.Name = item.Snippet.ChannelTitle
      /\ x.sends[1].embed.Image.URL = item.Snippet.Thumbnails.High.Url
      /\ (~ParseISO8601(item.ContentDetails.Duration).ok =>
            x.sends[1].embed.Fields[4].Value = <<"0", "U+6642", "U+9593", "0", "U+5206", "0", "U+79D2">>)
      /\ (~timeParse(item.Snippet.PublishedAt).ok =>
            x.sends[1].embed.Fields[3].Value = <<"0", "0", "0", "1", "-", "0", "1", "-", "0", "1", " ", "0", "0", ":", "0", "0", ":", "0", "0", " ", "+", "0", "0", "0", "0", " ", "U", "T", "C">>)

(***************************************************************************)
(* C8.  The links of the success card.                                     *)
(***************************************************************************)
SuccessCards(x) == {k \in DOMAIN x.sends : x.sends[k].kind = "recommend"}

\* C8 as stated: the main link of every success card is the watch URL of the
\* identifier extracted from the argument, and the author URL and the second
\* field are the channel URL of the channel id of the record
C8_LinkFromExtractedId ==
  \A i \in Invocations : \A k \in SuccessCards(inv[i]) :
    LET x == inv[i]
        card == x.sends[k].embed
        channel == <<"h", "t", "t", "p", "s", ":", "/", "/", "w", "w", "w", ".", "y", "o", "u", "t", "u", "b", "e", ".", "c", "o", "m", "/", "c", "h", "a", "n", "n", "e", "l", "/">> \o x.resp.Items[1].Snippet.ChannelId
    IN  /\ card.URL = <<"h", "t", "t", "p", "s", ":", "/", "/", "w", "w", "w", ".", "y", "o", "u", "t", "u", "b", "e", ".", "c", "o", "m", "/", "w", "a", "t", "c", "h", "?", "v", "=">> \o Extraction[Argument(x)].id
        /\ card.Author.URL = channel
        /\ card.Fields[2].Value = channel

\* C8 amended: the main link of every success card is the watch URL of the
\* id of the fetched record, and the author URL and the second field are the
\* channel URL of the channel id of the record
C8_LinkFromRecordId ==
  \A i \in Invocations : \A k \in SuccessCards(inv[i]) :
    LET x == inv[i]
        card == x.sends[k].embed
        channel == <<"h", "t", "t", "p", "s", ":", "/", "/", "w", "w", "w", ".", "y", "o", "u", "t", "u", "b", "e", ".", "c", "o", "m", "/", "c", "h", "a", "n", "n", "e", "l", "/">> \o x.resp.Items[1].Snippet.ChannelId
    IN  /\ card.URL = <<"h", "t", "t", "p", "s", ":", "/", "/", "w", "w", "w", ".", "y", "o", "u", "t", "u", "b", "e", ".", "c", "o", "m", "/", "w", "a", "t", "c", "h", "?", "v", "=">> \o x.resp.Items[1].Id
        /\ card.Author.URL = channel
        /\ card.Fields[2].Value = channel

\* a success card for a record whose id is not the extracted identifier and
\* whose channel id is not empty
C8_Witness ==
  \E i \in Invocations :
    /\ OneSuccessCard(inv[i])
    /\ inv[i].resp.Items[1].Id # inv[i].videoID
    /\ inv[i].resp.Items[1].Snippet.ChannelId # <<>>
    /\ inv[i].resp.Items[1].Snippet.ChannelId # inv[i].resp.Items[1].Snippet.ChannelTitle

(***************************************************************************)
(* C9.  A failed send.  The error sendError returns is dropped by its      *)
(* three callers: the failed send of an error card is not logged.          *)
(***************************************************************************)
\* C9: an invocation calls the send collaborator at most once; after a
\* failed send it has returned, with that one send and no card about the
\* failure, and the failure is in the log
C9_SendFailureLogged ==
  \A i \in Invocations :
    LET x == inv[i] IN
    /\ Len(x.sends) <= 1
    /\ (x.state = "SendFailed") =>
         /\ x.pc = "done"
         /\ Len(x.sends) = 1
         /\ x.sendErr # NoError
         /\ Len(x.logs) = 1
         /\ x.logs[1].err = x.sendErr

(***************************************************************************)
(* C10.  Concurrent invocations.                                           *)
(***************************************************************************)
\* the cards and the request of x come from the message and the response of x
OwnCards(x) ==
  /\ \A k \in DOMAIN x.fetches : x.fetches[k].id = Extraction[Argument(x)].id
  /\ \A k \in DOMAIN x.sends :
       LET card == x.sends[k].embed IN
       /\ x.sends[k].ChannelID = x.m.ChannelID
       /\ card.Fields[Len(card.Fields)].Value = <<"<", "@">> \o x.m.Author.ID \o <<">">>
       /\ IF x.sends[k].kind = "error" THEN card.Description = FailureMessage(x)
          ELSE /\ FetchAnswered(x)
               /\ card.Title = x.resp.Items[1].Snippet.Title
               /\ card.Description = x.resp.Items[1].Snippet.Description
               /\ card.URL = <<"h", "t", "t", "p", "s", ":", "/", "/", "w", "w", "w", ".", "y", "o", "u", "t", "u", "b", "e", ".", "c", "o", "m", "/", "w", "a", "t", "c", "h", "?", "v", "=">> \o x.resp.Items[1].Id
               /\ card.Author.Name = x.resp.Items[1].Snippet.ChannelTitle
               /\ card.Image.URL = x.resp.Items[1].Snippet.Thumbnails.High.Url

\* C10: in every step of every interleaving each card is addressed to the
\* channel of the message that triggered it, mentions the author of that
\* message and is built from the identifier of that message and the record
\* of the invocation's own fetch, and the step changes the locals of one
\* invocation only
C10_NoInterference ==
  [][/\ \A i \in Invocations : OwnCards(inv'[i])
     /\ \A i, j \in Invocations : (i # j /\ inv'[i] # inv[i]) => inv'[j] = inv[j]]_vars

\* one invocation has delivered its success card while another, for a
\* message of another channel and another author, waits in its fetch
C10_Witness ==
  \E i, j \in Invocations :
    /\ i # j
    /\ inv[i].state = "Sent"
    /\ OneSuccessCard(inv[i])
    /\ inv[j].pc = "fetch"
    /\ inv[i].m.ChannelID # inv[j].m.ChannelID
    /\ inv[i].m.Author.ID # inv[j].m.Author.ID

====
